---- MODULE Spec2Model ----
(***************************************************************************)
(* Model of the Customer Value Prediction API (src/app.py): the handler    *)
(* predict_customer_value and the functions it calls, one request at a     *)
(* time (requests share no mutable state).                                 *)
(*                                                                         *)
(* Numbers are integers in thousandths (1.234 is 1234).  Text is a         *)
(* sequence of pieces, each whitespace character a piece of its own.  An   *)
(* LLM reply is the sequence of lexical tokens of its text; JsonLoads      *)
(* parses it.                                                              *)
(***************************************************************************)
EXTENDS Integers, Sequences, FiniteSets, TLC

VARIABLES pc, customer_id, features, X, future_spend, probability,
          llm_input, messages, llm_output, parsed, reconciled,
          status, detail, response, calls

vars == <<pc, customer_id, features, X, future_spend, probability,
          llm_input, messages, llm_output, parsed, reconciled,
          status, detail, response, calls>>

(***************************************************************************)
(* Bounds of the model.                                                    *)
(***************************************************************************)
MaxFeatures == 7     \* longest features list of a request
MaxIdLen == 2        \* longest customer_id of a request
MaxMissing == 1      \* most required keys an LLM object reply leaves out
MaxTxns == 12        \* largest num_transactions given to the scorer alone
MaxRecency == 100    \* largest |recency_days| given to the scorer alone

(***************************************************************************)
(* Program constants.                                                      *)
(***************************************************************************)
MIN_FEATURES == 6
FREQ_CAP == 10
RECENCY_WINDOW == 45
PROB_MIN == 50
PROB_MAX == 950

RequiredKeys ==
    {<<"customer_id">>, <<"predicted_future_spend_30d">>, <<"customer_segment">>,
     <<"insight">>, <<"recommended_action">>}

NarrativeKeys == {<<"customer_segment">>, <<"insight">>, <<"recommended_action">>}

(***************************************************************************)
(* Arithmetic helpers.                                                     *)
(***************************************************************************)
Min(a, b) == IF a < b THEN a ELSE b
Max(a, b) == IF a > b THEN a ELSE b

\* num/den rounded to the nearest integer, ties to the even neighbour
\* (what Python's round does on the exact value), den > 0.
RoundHalfEven(num, den) ==
    LET q == num \div den
        r == num % den
    IN  IF 2 * r < den THEN q
        ELSE IF 2 * r > den THEN q + 1
        ELSE IF q % 2 = 0 THEN q ELSE q + 1

\* round(x, 2) of a value in thousandths, result in thousandths.
Round2(x) == 10 * RoundHalfEven(x, 10)

(***************************************************************************)
(* str.strip(): drop leading and trailing whitespace.                      *)
(***************************************************************************)
Whitespace == {" "}

RECURSIVE LStrip(_)
LStrip(s) ==
    IF s = <<>> THEN <<>>
    ELSE IF Head(s) \in Whitespace THEN LStrip(Tail(s)) ELSE s

RECURSIVE RStrip(_)
RStrip(s) ==
    IF s = <<>> THEN <<>>
    ELSE IF s[Len(s)] \in Whitespace THEN RStrip(SubSeq(s, 1, Len(s) - 1))
    ELSE s

Strip(s) == RStrip(LStrip(s))

(***************************************************************************)
(* JSON.  A token is [t, s, n]: t its kind ("{", "}", "[", "]", ":", ",",  *)
(* "str", "num", "null", "bool", "word"), s the text of a string literal,  *)
(* n the value of a number literal.  A scalar Python value is     *)
(* written as its token; a dict value is kept as the tokens that spell it. *)
(***************************************************************************)
Tok(t, s, n) == [t |-> t, s |-> s, n |-> n]
P(t) == Tok(t, <<>>, 0)
StrTok(s) == Tok("str", s, 0)
NumTok(n) == Tok("num", <<>>, n)
NullTok == P("null")

ScalarKinds == {"str", "num", "null", "bool"}

JVal(kind, members, elems, tok) ==
    [kind |-> kind, members |-> members, elems |-> elems, tok |-> tok]
JObject(members) == JVal("object", members, <<>>, NullTok)
JArray(elems) == JVal("array", {}, elems, NullTok)
JScalar(tok) == JVal(tok.t, {}, <<>>, tok)
NoJson == JVal("unset", {}, <<>>, NullTok)

ParseFail == [ok |-> FALSE, next |-> 0, val |-> NoJson]
ParseOk(next, val) == [ok |-> TRUE, next |-> next, val |-> val]

\* dict[k] = v : a later member with the same key replaces the earlier one.
SetMember(members, k, v) ==
    {m \in members : m.key # k} \cup {[key |-> k, val |-> v]}

RECURSIVE ParseValue(_, _), ParseMembers(_, _, _), ParseElems(_, _, _)

\* The JSON value that starts at toks[i], and the index just after it.
ParseValue(toks, i) ==
    IF i > Len(toks) THEN ParseFail
    ELSE IF toks[i].t \in ScalarKinds THEN ParseOk(i + 1, JScalar(toks[i]))
    ELSE IF toks[i].t = "{" THEN
        IF i + 1 <= Len(toks) /\ toks[i + 1].t = "}"
        THEN ParseOk(i + 2, JObject({}))
        ELSE ParseMembers(toks, i + 1, {})
    ELSE IF toks[i].t = "[" THEN
        IF i + 1 <= Len(toks) /\ toks[i + 1].t = "]"
        THEN ParseOk(i + 2, JArray(<<>>))
        ELSE ParseElems(toks, i + 1, <<>>)
    ELSE ParseFail

\* string ":" value, then "," and more members, or "}".
ParseMembers(toks, i, acc) ==
    IF i + 1 > Len(toks) \/ toks[i].t # "str" \/ toks[i + 1].t # ":"
    THEN ParseFail
    ELSE LET r == ParseValue(toks, i + 2) IN
         IF ~r.ok \/ r.next > Len(toks) THEN ParseFail
         ELSE LET acc2 == SetMember(acc, toks[i].s,
                                    SubSeq(toks, i + 2, r.next - 1))
              IN  IF toks[r.next].t = "," THEN ParseMembers(toks, r.next + 1, acc2)
                  ELSE IF toks[r.next].t = "}" THEN ParseOk(r.next + 1, JObject(acc2))
                  ELSE ParseFail

\* value, then "," and more elements, or "]".
ParseElems(toks, i, acc) ==
    LET r == ParseValue(toks, i) IN
    IF ~r.ok \/ r.next > Len(toks) THEN ParseFail
    ELSE LET acc2 == Append(acc, SubSeq(toks, i, r.next - 1))
         IN  IF toks[r.next].t = "," THEN ParseElems(toks, r.next + 1, acc2)
             ELSE IF toks[r.next].t = "]" THEN ParseOk(r.next + 1, JArray(acc2))
             ELSE ParseFail

\* A mutant of JsonLoads: text that does not parse is taken as an empty object.
JsonLoadsLenient(toks) ==
    LET r == ParseValue(toks, 1) IN
    IF r.ok /\ r.next = Len(toks) + 1 THEN r ELSE ParseOk(1, JObject({}))

\* json.loads: one value and nothing after it, else JSONDecodeError.
JsonLoads(toks) ==
    LET r == ParseValue(toks, 1) IN
    IF r.ok /\ r.next = Len(toks) + 1 THEN r ELSE ParseFail

\* parsed.keys()
Keys(v) == {m.key : m \in v.members}

\* parsed[k], for k among the keys
Get(members, k) == (CHOOSE m \in members : m.key = k).val

(***************************************************************************)
(* run_model: the guard and the feature mapping.  Feature values are plain *)
(* integers.  Python's features[k] is f[k + 1] here.                       *)
(***************************************************************************)
FEATURE_INDEX == <<5, 2, 0, 1>>

TooFewFeatures(f) == Len(f) < MIN_FEATURES

\* A mutant of FeatureMap: total_spend and avg_spend swapped.
FeatureMapSwapped(f) == <<f[6], f[3], f[2], f[1]>>

FeatureMap(f) == [i \in 1..4 |-> f[FEATURE_INDEX[i] + 1]]

(***************************************************************************)
(* purchase_probability_30d, in thousandths.  With n = features[2] and    *)
(* r = features[5]: freq_score = min(n/10, 1), recency_score =            *)
(* max(0, 1 - r/45), probability = 0.6*recency_score + 0.4*freq_score,    *)
(* kept exact as the fraction num/den of thousandths.                      *)
(***************************************************************************)
ScoreDen == FREQ_CAP * RECENCY_WINDOW

ScoreNum(f) ==
    LET num_txns == f[3]
        recency_days == f[6]
        freq_score == Min(num_txns, FREQ_CAP)                   \* in 1/FREQ_CAP
        recency_score == Max(0, RECENCY_WINDOW - recency_days)  \* in 1/RECENCY_WINDOW
    IN  600 * FREQ_CAP * recency_score + 400 * RECENCY_WINDOW * freq_score

\* A mutant of purchase_probability_30d: the clamp is left out.
purchase_probability_30d_unclamped(f) ==
    10 * RoundHalfEven(ScoreNum(f), 10 * ScoreDen)

purchase_probability_30d(f) ==
    LET clamped == Min(Max(ScoreNum(f), PROB_MIN * ScoreDen), PROB_MAX * ScoreDen)
    IN  10 * RoundHalfEven(clamped, 10 * ScoreDen)

(***************************************************************************)
(* build_messages                                                          *)
(***************************************************************************)
NoPayload == [customer_id |-> <<>>, predicted_future_spend_30d |-> 0,
              purchase_probability_30d |-> 0]

build_messages(payload) ==
    << [role |-> "system", content |-> "SYSTEM_PROMPT", data |-> NoPayload],
       [role |-> "user", content |-> "Here is the customer prediction data", data |-> payload] >>

(***************************************************************************)
(* Errors raised by the handler and the functions it calls.                *)
(***************************************************************************)
Error(code, error, cause, rawText, rawParsed) ==
    [code |-> code, error |-> error, cause |-> cause, rawText |-> rawText,
     rawParsed |-> rawParsed]

NoDetail == Error(0, "", <<>>, <<>>, NoJson)

\* A mutant of TooFewFeaturesError: the wrong status code.
TooFewFeaturesError500 ==
    Error(500, "Expected 6 features", <<>>, <<>>, NoJson)

TooFewFeaturesError ==
    Error(400, "Expected 6 features", <<>>, <<>>, NoJson)

LLMCallFailed(e) == Error(502, "LLM call failed", e, <<>>, NoJson)

InvalidJson(raw) == Error(502, "Invalid JSON from LLM", <<>>, raw, NoJson)

MissingKeys(raw) == Error(502, "Missing keys in LLM response", <<>>, <<>>, raw)

\* An exception that is not an HTTPException: the framework answers 500.
Unhandled(name) == Error(500, name, <<>>, <<>>, NoJson)

\* The request body does not fit CustomerPredictionRequest: the framework answers 422.
RequestInvalid == Error(422, "RequestValidationError", <<>>, <<>>, NoJson)

(***************************************************************************)
(* The reconciliation: the three authoritative values replace what the LLM *)
(* put under their keys.                                                   *)
(***************************************************************************)
\* A mutant of Overwrite: a value the LLM supplied is kept.
OverwriteMissingOnly(members, cid, spend, prob) ==
    LET keep(ms, k, v) == IF k \in {m.key : m \in ms} THEN ms ELSE SetMember(ms, k, v)
    IN  keep(keep(keep(members,
            <<"customer_id">>, <<StrTok(Strip(cid))>>),
            <<"predicted_future_spend_30d">>, <<NumTok(Round2(spend))>>),
            <<"purchase_probability_30d">>, <<NumTok(prob)>>)

Overwrite(members, cid, spend, prob) ==
    SetMember(SetMember(SetMember(members,
        <<"customer_id">>, <<StrTok(Strip(cid))>>),
        <<"predicted_future_spend_30d">>, <<NumTok(Round2(spend))>>),
        <<"purchase_probability_30d">>, <<NumTok(prob)>>)

(***************************************************************************)
(* CustomerPredictionResponse: what the response_model makes of the dict   *)
(* the handler returns.  A str field takes a string; a number is taken     *)
(* (as its text) or refused depending on the validation library's version; *)
(* null, a list or a dict is refused.                                      *)
(***************************************************************************)
ResponseKeys == RequiredKeys \cup {<<"purchase_probability_30d">>}

IsScalar(val, kinds) == Len(val) = 1 /\ val[1].t \in kinds

FitsResponse(members, lenient) ==
    /\ ResponseKeys \subseteq {m.key : m \in members}
    /\ IsScalar(Get(members, <<"customer_id">>), {"str"})
    /\ IsScalar(Get(members, <<"predicted_future_spend_30d">>), {"num"})
    /\ IsScalar(Get(members, <<"purchase_probability_30d">>), {"num"})
    /\ \A k \in NarrativeKeys :
          IsScalar(Get(members, k), IF lenient THEN {"str", "num"} ELSE {"str"})

\* The response body: the six declared fields, other keys dropped.
ResponseBody(members) ==
    [customer_id |-> Get(members, <<"customer_id">>)[1].s,
     predicted_future_spend_30d |-> Get(members, <<"predicted_future_spend_30d">>)[1].n,
     purchase_probability_30d |-> Get(members, <<"purchase_probability_30d">>)[1].n,
     customer_segment |-> Get(members, <<"customer_segment">>)[1],
     insight |-> Get(members, <<"insight">>)[1],
     recommended_action |-> Get(members, <<"recommended_action">>)[1]]

(***************************************************************************)
(* The inputs: request bodies, model outputs, LLM outcomes.                *)
(***************************************************************************)
SeqsUpTo(S, n) == UNION {[1..k -> S] : k \in 0..n}

IdPieces == {" ", "a"}
CustomerIds == SeqsUpTo(IdPieces, MaxIdLen)

FeatureValues == {0, 50}
FeatureVectors == SeqsUpTo(FeatureValues, MaxFeatures)

\* What model.predict returns, in thousandths; it may also raise.
ModelOutputs == {-125, 375, 1234}

TransportErrors == {<<"Connection", " ", "error.">>}

KeyOrder ==
    << <<"customer_id">>, <<"predicted_future_spend_30d">>,
       <<"purchase_probability_30d">>, <<"customer_segment">>, <<"insight">>,
       <<"recommended_action">> >>

\* What the LLM writes under a key: text and its own numbers, nulls,
\* numbers everywhere, or lists.
Styles == {"text", "null", "number", "list"}

LLMValue(style, k) ==
    CASE style = "null" -> <<NullTok>>
      [] style = "number" -> <<NumTok(7000)>>
      [] style = "list" -> <<P("["), StrTok(<<"x">>), P(","), NumTok(1000), P("]")>>
      [] OTHER ->
           IF k = <<"predicted_future_spend_30d">> THEN <<NumTok(999990)>>
           ELSE IF k = <<"purchase_probability_30d">> THEN <<NumTok(10)>>
           ELSE IF k = <<"customer_id">> THEN <<StrTok(<<"llm">>)>>
           ELSE <<StrTok(<<"High", " ", "Value">>)>>

RECURSIVE MembersText(_, _)
MembersText(keys, style) ==
    IF keys = <<>> THEN <<>>
    ELSE <<StrTok(Head(keys)), P(":")>> \o LLMValue(style, Head(keys))
         \o (IF Tail(keys) = <<>> THEN <<>> ELSE <<P(",")>>)
         \o MembersText(Tail(keys), style)

ObjectText(K, style) ==
    <<P("{")>> \o MembersText(SelectSeq(KeyOrder, LAMBDA k : k \in K), style)
    \o <<P("}")>>

KeySets ==
    {K \in SUBSET ResponseKeys : Cardinality(RequiredKeys \ K) <= MaxMissing}
    \cup {{}}

FullText == ObjectText(ResponseKeys, "text")

ObjectReplies ==
    {ObjectText(K, style) : K \in KeySets, style \in Styles}
    \cup { \* a key given twice: the later value stands
           SubSeq(FullText, 1, Len(FullText) - 1)
           \o <<P(","), StrTok(<<"insight">>), P(":"), NullTok, P("}")>> }

OtherJsonReplies ==
    { <<NullTok>>, <<NumTok(1000)>>, <<StrTok(<<"ok">>)>>, <<P("bool")>>,
      <<P("["), P("]")>>, <<P("[")>> \o FullText \o <<P("]")>> }

NotJsonReplies ==
    { <<>>,
      <<P("word")>>,
      SubSeq(FullText, 1, Len(FullText) - 1),
      SubSeq(FullText, 1, Len(FullText) - 1) \o <<P(","), P("}")>>,
      FullText \o <<P("word")>>,
      FullText \o FullText,
      <<P("{"), StrTok(<<"insight">>), StrTok(<<"x">>), P("}")>>,
      <<P("{"), NumTok(1000), P(":"), NullTok, P("}")>>,
      <<P("["), NullTok, P(","), P("]")>>,
      <<P("["), NullTok>> }

LLMReplies == ObjectReplies \cup OtherJsonReplies \cup NotJsonReplies

(***************************************************************************)
(* The state of one request.                                               *)
(* pc: the handler's position.  future_spend, probability, llm_output,     *)
(* response: <<>> until set, then <<value>>.  status: 0 until the response *)
(* is sent.  calls: the calls made so far, in order.                       *)
(***************************************************************************)
Fresh(cid, f, at) ==
    /\ pc = at
    /\ customer_id = cid
    /\ features = f
    /\ X = <<>>
    /\ future_spend = <<>>
    /\ probability = <<>>
    /\ llm_input = NoPayload
    /\ messages = <<>>
    /\ llm_output = <<>>
    /\ parsed = NoJson
    /\ reconciled = NoJson
    /\ status = 0
    /\ detail = NoDetail
    /\ response = <<>>
    /\ calls = <<>>

Init == Fresh(<<>>, <<>>, "idle")

\* The handler raises err (an HTTPException, or anything else): the
\* request ends with its status code.
Raise(err) ==
    /\ status' = err.code
    /\ detail' = err
    /\ pc' = "done"

\* A request arrives.  Nothing outlives a request, so the model follows
\* one request from its arrival to its response.
Receive ==
    /\ pc = "idle"
    /\ \E cid \in CustomerIds, f \in FeatureVectors :
          /\ customer_id' = cid
          /\ features' = f
    /\ pc' = "validate"
    /\ X' = <<>>
    /\ future_spend' = <<>>
    /\ probability' = <<>>
    /\ llm_input' = NoPayload
    /\ messages' = <<>>
    /\ llm_output' = <<>>
    /\ parsed' = NoJson
    /\ reconciled' = NoJson
    /\ status' = 0
    /\ detail' = NoDetail
    /\ response' = <<>>
    /\ calls' = <<>>

\* CustomerPredictionRequest: customer_id min_length 1, features min_items 1.
Validate ==
    /\ pc = "validate"
    /\ IF Len(customer_id) < 1 \/ Len(features) < 1
       THEN /\ Raise(RequestInvalid)
            /\ UNCHANGED calls
       ELSE /\ pc' = "run_model"
            /\ calls' = Append(calls, "predict_customer_value")
            /\ UNCHANGED <<status, detail>>
    /\ UNCHANGED <<customer_id, features, X, future_spend, probability,
                   llm_input, messages, llm_output, parsed, reconciled, response>>

\* future_spend = run_model(data.features)
RunModel ==
    /\ pc = "run_model"
    /\ IF TooFewFeatures(features)
       THEN /\ Raise(TooFewFeaturesError)
            /\ calls' = Append(calls, "run_model")
            /\ UNCHANGED <<X, future_spend>>
       ELSE /\ X' = FeatureMap(features)
            /\ calls' = calls \o <<"run_model", "model.predict">>
            /\ \/ /\ Raise(Unhandled("model.predict raised"))
                  /\ UNCHANGED future_spend
               \/ \E prediction \in ModelOutputs :
                     /\ future_spend' = <<prediction>>
                     /\ pc' = "heuristic"
                     /\ UNCHANGED <<status, detail>>
    /\ UNCHANGED <<customer_id, features, probability, llm_input, messages,
                   llm_output, parsed, reconciled, response>>

\* probability = purchase_probability_30d(data.features)
Heuristic ==
    /\ pc = "heuristic"
    /\ probability' = <<purchase_probability_30d(features)>>
    /\ calls' = Append(calls, "purchase_probability_30d")
    /\ pc' = "llm_input"
    /\ UNCHANGED <<customer_id, features, X, future_spend, llm_input, messages,
                   llm_output, parsed, reconciled, status, detail, response>>

\* A mutant of BuildInput: the payload calls the scorer again instead of
\* using the value already computed.
BuildInputRescoring ==
    /\ pc = "llm_input"
    /\ llm_input' = [customer_id |-> Strip(customer_id),
                     predicted_future_spend_30d |-> Round2(future_spend[1]),
                     purchase_probability_30d |-> purchase_probability_30d(features)]
    /\ messages' = build_messages(llm_input')
    /\ calls' = calls \o <<"purchase_probability_30d", "build_messages">>
    /\ pc' = "call_llm"
    /\ UNCHANGED <<customer_id, features, X, future_spend, probability,
                   llm_output, parsed, reconciled, status, detail, response>>

\* llm_input = {...}; messages = build_messages(llm_input)
BuildInput ==
    /\ pc = "llm_input"
    /\ llm_input' = [customer_id |-> Strip(customer_id),
                     predicted_future_spend_30d |-> Round2(future_spend[1]),
                     purchase_probability_30d |-> probability[1]]
    /\ messages' = build_messages(llm_input')
    /\ calls' = Append(calls, "build_messages")
    /\ pc' = "call_llm"
    /\ UNCHANGED <<customer_id, features, X, future_spend, probability,
                   llm_output, parsed, reconciled, status, detail, response>>

\* A mutant of CallLLM: a failed call is made once more before giving up.
CallLLMRetry ==
    /\ pc = "call_llm"
    /\ \/ \E e \in TransportErrors :
             /\ Raise(LLMCallFailed(e))
             /\ calls' = calls \o <<"call_llm", "call_llm">>
             /\ UNCHANGED llm_output
       \/ \E reply \in LLMReplies :
             /\ llm_output' = <<reply>>
             /\ calls' = Append(calls, "call_llm")
             /\ pc' = "parse"
             /\ UNCHANGED <<status, detail>>
    /\ UNCHANGED <<customer_id, features, X, future_spend, probability,
                   llm_input, messages, parsed, reconciled, response>>

\* A mutant of CallLLM: a failed call is answered with the local numbers
\* and a default narrative.
CallLLMFallback ==
    /\ pc = "call_llm"
    /\ calls' = Append(calls, "call_llm")
    /\ \/ \E e \in TransportErrors :
             /\ status' = 200
             /\ pc' = "done"
             /\ response' =
                  << [customer_id |-> llm_input.customer_id,
                      predicted_future_spend_30d |-> llm_input.predicted_future_spend_30d,
                      purchase_probability_30d |-> llm_input.purchase_probability_30d,
                      customer_segment |-> StrTok(<<"Unknown">>),
                      insight |-> StrTok(<<"Unavailable">>),
                      recommended_action |-> StrTok(<<"None">>)] >>
             /\ UNCHANGED <<llm_output, detail>>
       \/ \E reply \in LLMReplies :
             /\ llm_output' = <<reply>>
             /\ pc' = "parse"
             /\ UNCHANGED <<status, detail, response>>
    /\ UNCHANGED <<customer_id, features, X, future_spend, probability,
                   llm_input, messages, parsed, reconciled>>

\* llm_output = call_llm(messages): one chat completion; any exception
\* becomes HTTPException(502, "LLM call failed: ...").
CallLLM ==
    /\ pc = "call_llm"
    /\ calls' = Append(calls, "call_llm")
    /\ \/ \E e \in TransportErrors :
             /\ Raise(LLMCallFailed(e))
             /\ UNCHANGED llm_output
       \/ \E reply \in LLMReplies :
             /\ llm_output' = <<reply>>
             /\ pc' = "parse"
             /\ UNCHANGED <<status, detail>>
    /\ UNCHANGED <<customer_id, features, X, future_spend, probability,
                   llm_input, messages, parsed, reconciled, response>>

\* parsed = json.loads(llm_output), JSONDecodeError becomes a 502.
Parse ==
    /\ pc = "parse"
    /\ calls' = Append(calls, "json.loads")
    /\ LET r == JsonLoads(llm_output[1]) IN
       IF ~r.ok
       THEN /\ Raise(InvalidJson(llm_output[1]))
            /\ UNCHANGED parsed
       ELSE /\ parsed' = r.val
            /\ pc' = "key_check"
            /\ UNCHANGED <<status, detail>>
    /\ UNCHANGED <<customer_id, features, X, future_spend, probability,
                   llm_input, messages, llm_output, reconciled, response>>

\* if not required_keys.issubset(parsed.keys()): raise a 502.
\* parsed.keys() exists on a dict only: on any other value it raises
\* AttributeError, which nothing catches.
KeyCheck ==
    /\ pc = "key_check"
    /\ calls' = Append(calls, "key_check")
    /\ IF parsed.kind # "object"
       THEN Raise(Unhandled("AttributeError"))
       ELSE IF ~(RequiredKeys \subseteq Keys(parsed))
       THEN Raise(MissingKeys(parsed))
       ELSE /\ pc' = "reconcile"
            /\ UNCHANGED <<status, detail>>
    /\ UNCHANGED <<customer_id, features, X, future_spend, probability,
                   llm_input, messages, llm_output, parsed, reconciled, response>>

\* parsed["customer_id"] = ...; parsed["predicted_future_spend_30d"] = ...;
\* parsed["purchase_probability_30d"] = ...
Reconcile ==
    /\ pc = "reconcile"
    /\ calls' = Append(calls, "reconcile")
    /\ reconciled' = JObject(Overwrite(parsed.members, customer_id,
                                       future_spend[1], probability[1]))
    /\ pc' = "respond"
    /\ UNCHANGED <<customer_id, features, X, future_spend, probability,
                   llm_input, messages, llm_output, parsed, status, detail,
                   response>>

\* return parsed, through response_model=CustomerPredictionResponse.
Respond ==
    /\ pc = "respond"
    /\ \E lenient \in BOOLEAN :
          IF FitsResponse(reconciled.members, lenient)
          THEN /\ status' = 200
               /\ response' = <<ResponseBody(reconciled.members)>>
               /\ pc' = "done"
               /\ UNCHANGED detail
          ELSE /\ Raise(Unhandled("ResponseValidationError"))
               /\ UNCHANGED response
    /\ UNCHANGED <<customer_id, features, X, future_spend, probability,
                   llm_input, messages, llm_output, parsed, reconciled, calls>>

Next ==
    \/ Receive
    \/ Validate
    \/ RunModel
    \/ Heuristic
    \/ BuildInput
    \/ CallLLM
    \/ Parse
    \/ KeyCheck
    \/ Reconcile
    \/ Respond

Spec == Init /\ [][Next]_vars

(***************************************************************************)
(* The scorer alone: purchase_probability_30d on a request whose model     *)
(* inference has returned, over a range of num_transactions and            *)
(* recency_days.                                                           *)
(***************************************************************************)
InitScorer ==
    \E n \in (0 - MaxTxns)..MaxTxns, r \in (0 - MaxRecency)..MaxRecency :
       /\ pc = "heuristic"
       /\ customer_id = <<"a">>
       /\ features = <<0, 0, n, 0, 0, r>>
       /\ X = FeatureMap(features)
       /\ future_spend = <<0>>
       /\ probability = <<>>
       /\ llm_input = NoPayload
       /\ messages = <<>>
       /\ llm_output = <<>>
       /\ parsed = NoJson
       /\ reconciled = NoJson
       /\ status = 0
       /\ detail = NoDetail
       /\ response = <<>>
       /\ calls = <<"predict_customer_value", "run_model", "model.predict">>

SpecScorer == InitScorer /\ [][Heuristic]_vars

(***************************************************************************)
(* Properties.                                                             *)
(***************************************************************************)
Called(name) == \E i \in 1..Len(calls) : calls[i] = name

Count(name) == Cardinality({i \in 1..Len(calls) : calls[i] = name})

Done == pc = "done"

\* The handler's three outside steps, in the order they were made.
Pipeline ==
    SelectSeq(calls, LAMBDA c :
        c \in {"model.predict", "purchase_probability_30d", "call_llm"})

IsPrefix(s, t) == Len(s) <= Len(t) /\ s = SubSeq(t, 1, Len(s))

Spaces(n) == [i \in 1..n |-> " "]

\* t is s without its leading and trailing whitespace.
IsTrimOf(t, s) ==
    /\ \E i \in 0..Len(s), j \in 0..Len(s) : s = Spaces(i) \o t \o Spaces(j)
    /\ t # <<>> => (t[1] # " " /\ t[Len(t)] # " ")

\* r is x (in thousandths) rounded to 2 decimals, ties to even.
IsRounded2(r, x) ==
    LET d == IF r >= x THEN r - x ELSE x - r IN
    /\ r % 10 = 0
    /\ d <= 5
    /\ d = 5 => (r \div 10) % 2 = 0

C2_AuthoritativeFields ==
    status = 200 =>
       /\ Len(response) = 1
       /\ IsTrimOf(response[1].customer_id, customer_id)
       /\ IsRounded2(response[1].predicted_future_spend_30d, future_spend[1])
       /\ response[1].purchase_probability_30d = probability[1]

\* a 200 response to a reply in which the LLM gave its own values for all three keys
C2_Witness ==
    /\ status = 200
    /\ customer_id = <<" ", "a">>
    /\ future_spend = <<375>>
    /\ Get(parsed.members, <<"customer_id">>) = <<StrTok(<<"llm">>)>>
    /\ Get(parsed.members, <<"predicted_future_spend_30d">>) = <<NumTok(999990)>>
    /\ <<"purchase_probability_30d">> \in Keys(parsed)
    /\ response[1].predicted_future_spend_30d = 380

\* C3: a reply that parses as JSON but lacks a required key ends with a 502
\* whose detail carries the parsed value, whatever that value is, and with
\* no 200 response.
C3_IncompleteReplyIs502 ==
    (Done /\ parsed.kind # "unset" /\ ~(RequiredKeys \subseteq Keys(parsed))) =>
       /\ status = 502
       /\ detail.rawParsed = parsed
       /\ response = <<>>

\* C4: a reply that is not valid JSON ends with the 502 "Invalid JSON from
\* LLM" error whose detail carries the raw reply, and neither the key check
\* nor the reconciliation is reached.
C4_InvalidJsonIs502 ==
    (llm_output # <<>> /\ llm_output[1] \in NotJsonReplies) =>
       /\ ~Called("key_check")
       /\ ~Called("reconcile")
       /\ Done =>
             /\ status = 502
             /\ detail.error = "Invalid JSON from LLM"
             /\ detail.rawText = llm_output[1]
             /\ response = <<>>

\* the reply is an object cut off before its closing brace
C4_Witness ==
    /\ Done
    /\ llm_output = <<SubSeq(FullText, 1, Len(FullText) - 1)>>
    /\ status = 502
    /\ detail.rawText # <<>>

\* C5: the LLM is called at most once per request, and a request whose
\* call failed ends with the 502 "LLM call failed" error carrying the
\* underlying error message.
C5_SingleLLMAttempt ==
    /\ Count("call_llm") <= 1
    /\ (Done /\ Called("call_llm") /\ llm_output = <<>>) =>
          /\ status = 502
          /\ detail.error = "LLM call failed"
          /\ detail.cause \in TransportErrors
          /\ response = <<>>

C5_Witness ==
    /\ Done
    /\ Count("call_llm") = 1
    /\ llm_output = <<>>
    /\ status = 502
    /\ detail.cause = <<"Connection", " ", "error.">>

\* C6: model inference, heuristic score and LLM call happen in that order
\* and at most once each, and a finished request whose model inference
\* returned has made each of them exactly once.
C6_LinearPipeline ==
    /\ IsPrefix(Pipeline, <<"model.predict", "purchase_probability_30d", "call_llm">>)
    /\ (Done /\ Len(features) >= 6 /\ future_spend # <<>>) =>
          Pipeline = <<"model.predict", "purchase_probability_30d", "call_llm">>

\* finished requests with each LLM outcome have the full pipeline behind them
C6_Witness ==
    /\ Done
    /\ Len(features) = 7
    /\ future_spend # <<>>
    /\ status = 200
    /\ Pipeline = <<"model.predict", "purchase_probability_30d", "call_llm">>

\* C7: every request ends with status 200, 400 or 502.
C7_StatusIs200_400_502 ==
    Done => status \in {200, 400, 502}

\* C8: errors are terminal and nothing partial is returned: a 200 needs a
\* successful LLM call whose reply is a JSON object with the five required
\* keys; every other finished request carries an error status and no
\* response body; once a status is set the handler has stopped.
C8_NoPartialResponse ==
    /\ status = 200 =>
          /\ llm_output # <<>>
          /\ llm_output[1] \notin NotJsonReplies
          /\ parsed.kind = "object"
          /\ RequiredKeys \subseteq Keys(parsed)
          /\ Len(response) = 1
    /\ status # 200 => response = <<>>
    /\ Done => status # 0
    /\ status # 0 => Done

\* the numbers were computed, the LLM call failed, nothing was returned
C8_Witness ==
    /\ Done
    /\ future_spend # <<>>
    /\ probability # <<>>
    /\ llm_output = <<>>
    /\ Called("call_llm")
    /\ status = 502
    /\ response = <<>>

\* C9: for num_transactions >= 0 and any recency_days the scorer returns a
\* value between 0.05 and 0.95; (10, 0) gives 0.95 and (0, 90) gives 0.05.
C9_ScoreWithinBounds ==
    (probability # <<>> /\ features[3] >= 0) =>
       /\ probability[1] >= 50
       /\ probability[1] <= 950
       /\ (features[3] = 10 /\ features[6] = 0) => probability[1] = 950
       /\ (features[3] = 0 /\ features[6] = 90) => probability[1] = 50

\* an unclamped score above 1: ten transactions, the last one "in the future"
C9_Witness ==
    /\ probability = <<950>>
    /\ features[3] = 10
    /\ features[6] < 0

\* C10: the vector given to model.predict is [f[5], f[2], f[0], f[1]] of
\* the request's features (0-based), whatever f[3], f[4] and the elements
\* past index 5 are.
C10_FeatureMapping ==
    /\ Called("model.predict") => X # <<>>
    /\ X # <<>> =>
          X = <<features[6], features[3], features[1], features[2]>>

C10_Witness ==
    /\ Called("model.predict")
    /\ features = <<50, 0, 0, 50, 50, 50, 0>>
    /\ X = <<50, 0, 50, 0>>

====
